---- MODULE Spec2Model ----
(***************************************************************************)
(* Queue-contention benchmark of the FreeRTOS performance test apps        *)
(* (queue_contention.c): one coordinator (the test task running            *)
(* setup_idf, Test_QueueContention and teardown_idf) and one producer     *)
(* task per core (prvProducerTask).  Every C statement that touches        *)
(* shared state is one atomic step; the tasks interleave arbitrarily.      *)
(* The kernel primitives (task notification, counting semaphore, queue)    *)
(* are modelled by their documented contracts.                             *)
(*                                                                         *)
(* The two single-task benchmarks of the same test app are modelled next   *)
(* to it, each with its own variables and its own specification:           *)
(* crit_speed.c (Test_CriticalSectionSpeed, CritSpec) and queue_speed.c    *)
(* (Test_QueueSpeedNonBlocking with its setup and teardown,                *)
(* QueueSpeedSpec).  A test case that is not the one being run keeps its   *)
(* variables at their idle values.                                         *)
(***************************************************************************)
EXTENDS Integers, Sequences, FiniteSets, TLC

\* ------------------------------------------------------------------------
\* Run configuration
\* ------------------------------------------------------------------------
configNUMBER_OF_CORES == 2

\* Stand-ins for portTEST_NUM_SAMPLES (128) and portTEST_NUM_ITEMS (256):
\* the loops are the same, only the trip counts are scaled down.
portTEST_NUM_SAMPLES == 2

portTEST_NUM_ITEMS == 2

\* Cycle-counter readings: a start reading is any value in 0..MaxClock and
\* the end reading of the same round is at most MaxElapsed cycles later
\* (the counter is monotonic and does not wrap within a run).
MaxClock == 1

MaxElapsed == 1

Cores == 0 .. (configNUMBER_OF_CORES - 1)

pdTRUE == 1

errQUEUE_FULL == 0

errQUEUE_EMPTY == 0

VARIABLES
    mpc,                  \* coordinator: position in the TEST_CASE body
    iIter,                \* Test_QueueContention: iIter
    iCore,                \* Test_QueueContention: iCore / setup, teardown: i
    mainCore,             \* portGET_CORE_ID() as seen by the coordinator
    semState,             \* xIterDoneSem handle: "null", "live", "deleted"
    semCount,             \* xIterDoneSem: current count
    qState,               \* xQueueHandles[c]: "null", "live", "deleted"
    xQueue,               \* xQueueHandles[c]: items waiting, oldest first
    uxElapsedCumulative,  \* uxElapsedCumulative[c]
    wpc,                  \* producer i: position in prvProducerTask
    iSamples,             \* producer i: iSamples
    iItems,               \* producer i: iItems
    uxTempTime,           \* producer i: uxTempTime
    ulNotifiedValue,      \* producer i: task-notification value
    report,               \* lines printed by the result loop
    gives,                \* history: xTaskNotifyGive calls issued to i
    takes,                \* history: ulTaskNotifyTake calls returned in i
    dones,                \* history: xSemaphoreGive calls made by i
    semTaken,             \* history: xSemaphoreTake calls returned
    samples,              \* history: per accumulator, the Samples added
    qUsers,               \* history: per queue, the tasks that sent/reset
    migratedAt,           \* history: change of the coordinator's core id
    cs_pc,                \* Test_CriticalSectionSpeed: position
    cs_i,                 \* Test_CriticalSectionSpeed: i
    uxEntryElapsedCumulative,  \* Test_CriticalSectionSpeed local
    uxExitElapsedCumulative,   \* Test_CriticalSectionSpeed local
    cs_uxTemp,            \* Test_CriticalSectionSpeed: uxTemp
    mux,                  \* critical section: nesting count of the holder
    cs_window,            \* history: calls made since uxTemp was sampled
    cs_samples,           \* history: the Samples added, with their windows
    cs_report,            \* lines printed by Test_CriticalSectionSpeed
    qs_pc,                \* queue speed test case: position
    qs_i,                 \* Test_QueueSpeedNonBlocking: i
    uxSendElapsedCumulative,   \* Test_QueueSpeedNonBlocking local
    uxRecvElapsedCumulative,   \* Test_QueueSpeedNonBlocking local
    qs_uxTemp,            \* Test_QueueSpeedNonBlocking: uxTemp
    xQueueHandle,         \* queue_speed.c xQueueHandle: "null" or "live"
    qs_items,             \* queue of xQueueHandle: items waiting
    iValue,               \* Test_QueueSpeedNonBlocking: values received
    qs_samples,           \* history: the Samples added
    qs_report             \* lines printed by Test_QueueSpeedNonBlocking

qcVars == << mpc, iIter, iCore, mainCore, semState, semCount, qState,
             xQueue, uxElapsedCumulative, wpc, iSamples, iItems, uxTempTime,
             ulNotifiedValue, report, gives, takes, dones, semTaken,
             samples, qUsers >>

csVars == << cs_pc, cs_i, uxEntryElapsedCumulative, uxExitElapsedCumulative,
             cs_uxTemp, mux, cs_window, cs_samples, cs_report >>

qsVars == << qs_pc, qs_i, uxSendElapsedCumulative, uxRecvElapsedCumulative,
             qs_uxTemp, xQueueHandle, qs_items, iValue, qs_samples,
             qs_report >>

\* What no step of queue_contention.c touches.
auxVars == << migratedAt, csVars, qsVars >>

vars == << qcVars, migratedAt, csVars, qsVars >>

coordVars == << mpc, iIter, iCore, mainCore, report >>

kernelObjs == << semState, qState >>

workerLocals == << iSamples, iItems, uxTempTime >>

\* ------------------------------------------------------------------------
\* Helpers
\* ------------------------------------------------------------------------
RECURSIVE SumOver(_, _)
SumOver(f, S) ==
    IF S = {} THEN 0
    ELSE LET x == CHOOSE y \in S : TRUE IN f[x] + SumOver(f, S \ {x})

RECURSIVE SumVals(_)
SumVals(s) == IF s = << >> THEN 0 ELSE Head(s).val + SumVals(Tail(s))

\* Slip: every producer indexes the per-core arrays with core 0.
WorkerCoreIDZero(i) == 0

\* portGET_CORE_ID() evaluated inside producer i: the task is pinned to
\* core i at creation.
WorkerCoreID(i) == i

\* The handle stored in xProducerTaskHandles[c] designates producer c.
TaskOf(c) == c

\* queue_contention.c before setup_idf has created anything: no kernel
\* object, no producer task, nothing counted.
QcNothingCreated ==
    /\ iIter = 0
    /\ iCore = 0
    /\ semState = "null"
    /\ semCount = 0
    /\ qState = [c \in Cores |-> "null"]
    /\ xQueue = [c \in Cores |-> << >>]
    /\ wpc = [i \in Cores |-> "none"]
    /\ iSamples = [i \in Cores |-> 0]
    /\ iItems = [i \in Cores |-> 0]
    /\ uxTempTime = [i \in Cores |-> 0]
    /\ ulNotifiedValue = [i \in Cores |-> 0]
    /\ report = << >>
    /\ gives = [i \in Cores |-> 0]
    /\ takes = [i \in Cores |-> 0]
    /\ dones = [i \in Cores |-> 0]
    /\ semTaken = 0
    /\ samples = [c \in Cores |-> << >>]
    /\ qUsers = [c \in Cores |-> {}]
    /\ migratedAt = << >>

\* State on entry to the TEST_CASE body of queue_contention.c.  The
\* file-scope accumulators are zero after boot and hold the totals of the
\* previous run when the test case is selected again; everything else is
\* (re)created by setup_idf.
QcInit ==
    /\ mpc = "setup_reset"
    /\ mainCore \in Cores
    /\ uxElapsedCumulative \in [Cores -> 0 .. MaxElapsed]
    /\ QcNothingCreated

\* The queue-contention test case is not the one being run.
QcIdle ==
    /\ mpc = "none"
    /\ mainCore = 0
    /\ uxElapsedCumulative = [c \in Cores |-> 0]
    /\ QcNothingCreated

\* The locals of Test_CriticalSectionSpeed as initialised on entry, the
\* critical section free.
CsLocalsZero ==
    /\ cs_i = 0
    /\ uxEntryElapsedCumulative = 0
    /\ uxExitElapsedCumulative = 0
    /\ cs_uxTemp = 0
    /\ mux = 0
    /\ cs_window = << >>
    /\ cs_samples = << >>
    /\ cs_report = << >>

\* The critical-section test case is not the one being run.
CsIdle == cs_pc = "none" /\ CsLocalsZero

\* The locals of Test_QueueSpeedNonBlocking as initialised on entry, the
\* file-scope xQueueHandle NULL (zero-initialised, and reset by
\* teardown_idf).
QsNothingCreated ==
    /\ qs_i = 0
    /\ uxSendElapsedCumulative = 0
    /\ uxRecvElapsedCumulative = 0
    /\ qs_uxTemp = 0
    /\ xQueueHandle = "null"
    /\ qs_items = << >>
    /\ iValue = << >>
    /\ qs_samples = << >>
    /\ qs_report = << >>

\* The queue-speed test case is not the one being run.
QsIdle == qs_pc = "none" /\ QsNothingCreated

Init == QcInit /\ CsIdle /\ QsIdle

\* ------------------------------------------------------------------------
\* Kernel primitives, by contract
\* ------------------------------------------------------------------------
\* xTaskNotifyGive: increments the target's notification value.
xTaskNotifyGive(nv, t) == [nv EXCEPT ![t] = @ + 1]

\* ulTaskNotifyTake(pdTRUE, portMAX_DELAY): returns once the value is
\* non-zero and clears it to zero on exit.
NotifyTakeReady(nv, t) == nv[t] > 0

ulTaskNotifyTake(nv, t) == [nv EXCEPT ![t] = 0]

\* xSemaphoreGive on a counting semaphore of maximum count max: pdTRUE and
\* one more count, or errQUEUE_FULL and no change when already at max.
xSemaphoreGiveResult(cnt, max) == IF cnt < max THEN pdTRUE ELSE errQUEUE_FULL

xSemaphoreGiveCount(cnt, max) == IF cnt < max THEN cnt + 1 ELSE cnt

\* xQueueSend(q, &item, 0) on a queue of the given length.
xQueueSendResult(q, length) == IF Len(q) < length THEN pdTRUE ELSE errQUEUE_FULL

xQueueSendItems(q, length, item) == IF Len(q) < length THEN Append(q, item) ELSE q

\* xQueueReset: back to the empty state.
xQueueReset(q) == << >>

\* ------------------------------------------------------------------------
\* setup_idf
\* ------------------------------------------------------------------------
\* Slip: the completion semaphore is created one count too small (with two
\* cores: a binary semaphore).
SemMaxCountSmall == configNUMBER_OF_CORES - 1

\* xSemaphoreCreateCounting(configNUMBER_OF_CORES, 0): the maximum count.
SemMaxCount == configNUMBER_OF_CORES

\* for (i...) uxElapsedCumulative[i] = 0;
SetupReset ==
    /\ mpc = "setup_reset"
    /\ uxElapsedCumulative' = [c \in Cores |-> 0]
    /\ mpc' = "setup_sem"
    /\ UNCHANGED << iIter, iCore, mainCore, report, kernelObjs, semCount,
                    xQueue, wpc, workerLocals, ulNotifiedValue, gives, takes,
                    dones, semTaken, samples, qUsers >>
    /\ UNCHANGED auxVars

\* xIterDoneSem = xSemaphoreCreateCounting(configNUMBER_OF_CORES, 0);
\* TEST_ASSERT_NOT_NULL_MESSAGE aborts the test case when creation failed.
SetupCreateSem ==
    /\ mpc = "setup_sem"
    /\ \E ok \in BOOLEAN :
          IF ok
          THEN /\ semState' = "live"
               /\ semCount' = 0
               /\ mpc' = "setup_queue"
               /\ iCore' = 0
          ELSE /\ mpc' = "aborted"
               /\ UNCHANGED << semState, semCount, iCore >>
    /\ UNCHANGED << iIter, mainCore, report, qState, xQueue,
                    uxElapsedCumulative, wpc, workerLocals, ulNotifiedValue,
                    gives, takes, dones, semTaken, samples, qUsers >>
    /\ UNCHANGED auxVars

\* xQueueHandles[i] = xQueueCreate(portTEST_NUM_ITEMS, sizeof(int));
SetupCreateQueue ==
    /\ mpc = "setup_queue"
    /\ \E ok \in BOOLEAN :
          IF ok
          THEN /\ qState' = [qState EXCEPT ![iCore] = "live"]
               /\ xQueue' = [xQueue EXCEPT ![iCore] = << >>]
               /\ mpc' = "setup_task"
          ELSE /\ mpc' = "aborted"
               /\ UNCHANGED << qState, xQueue >>
    /\ UNCHANGED << iIter, iCore, mainCore, report, semState, semCount,
                    uxElapsedCumulative, wpc, workerLocals, ulNotifiedValue,
                    gives, takes, dones, semTaken, samples, qUsers >>
    /\ UNCHANGED auxVars

\* Slip: xRet is not checked, setup carries on after a failed creation.
SetupCreateTaskUnchecked ==
    /\ mpc = "setup_task"
    /\ \E ok \in BOOLEAN :
          IF ok
          THEN /\ wpc' = [wpc EXCEPT ![TaskOf(iCore)] = "notify_take"]
               /\ iSamples' = [iSamples EXCEPT ![TaskOf(iCore)] = 0]
               /\ ulNotifiedValue' = [ulNotifiedValue EXCEPT ![TaskOf(iCore)] = 0]
          ELSE UNCHANGED << wpc, iSamples, ulNotifiedValue >>
    /\ IF iCore + 1 < configNUMBER_OF_CORES
       THEN /\ iCore' = iCore + 1
            /\ mpc' = "setup_queue"
            /\ UNCHANGED iIter
       ELSE /\ iCore' = 0
            /\ iIter' = 0
            /\ mpc' = "release_others"
    /\ UNCHANGED << mainCore, report, kernelObjs, semCount, xQueue,
                    uxElapsedCumulative, iItems, uxTempTime, gives, takes,
                    dones, semTaken, samples, qUsers >>
    /\ UNCHANGED auxVars

\* xRet = xTaskCreatePinnedToCore(prvProducerTask, ..., i); the new task
\* enters its for loop (iSamples = 0) and reaches ulTaskNotifyTake.
SetupCreateTask ==
    /\ mpc = "setup_task"
    /\ \E ok \in BOOLEAN :
          IF ok
          THEN /\ wpc' = [wpc EXCEPT ![TaskOf(iCore)] = "notify_take"]
               /\ iSamples' = [iSamples EXCEPT ![TaskOf(iCore)] = 0]
               /\ ulNotifiedValue' = [ulNotifiedValue EXCEPT ![TaskOf(iCore)] = 0]
               /\ IF iCore + 1 < configNUMBER_OF_CORES
                  THEN /\ iCore' = iCore + 1
                       /\ mpc' = "setup_queue"
                       /\ UNCHANGED iIter
                  ELSE /\ iCore' = 0
                       /\ iIter' = 0
                       /\ mpc' = "release_others"
          ELSE /\ mpc' = "aborted"
               /\ UNCHANGED << wpc, iSamples, ulNotifiedValue, iCore, iIter >>
    /\ UNCHANGED << mainCore, report, kernelObjs, semCount, xQueue,
                    uxElapsedCumulative, iItems, uxTempTime, gives, takes,
                    dones, semTaken, samples, qUsers >>
    /\ UNCHANGED auxVars

\* ------------------------------------------------------------------------
\* prvProducerTask, producer w
\* ------------------------------------------------------------------------
\* Slip: = for +=, the accumulator keeps only the latest Sample.
AccumulateOverwrite(old, tEnd, tStart) == tEnd - tStart

\* uxElapsedCumulative[...] += portTEST_GET_TIME() - uxTempTime;
Accumulate(old, tEnd, tStart) == old + (tEnd - tStart)

\* Slip: <= for < in the outer loop test.
ProducerAfterGiveOffByOne(k) ==
    IF k <= portTEST_NUM_SAMPLES THEN "notify_take" ELSE "suspend_call"

\* for (...; iSamples < portTEST_NUM_SAMPLES; iSamples++), evaluated with the
\* incremented counter k: another round, or fall out to vTaskSuspend.
ProducerAfterGive(k) ==
    IF k < portTEST_NUM_SAMPLES THEN "notify_take" ELSE "suspend_call"

\* ulTaskNotifyTake(pdTRUE, portMAX_DELAY);
ProducerTake(w) ==
    /\ wpc[w] = "notify_take"
    /\ NotifyTakeReady(ulNotifiedValue, w)
    /\ ulNotifiedValue' = ulTaskNotifyTake(ulNotifiedValue, w)
    /\ takes' = [takes EXCEPT ![w] = @ + 1]
    /\ wpc' = [wpc EXCEPT ![w] = "get_start"]
    /\ UNCHANGED << coordVars, kernelObjs, semCount, xQueue,
                    uxElapsedCumulative, workerLocals, gives, dones,
                    semTaken, samples, qUsers >>
    /\ UNCHANGED auxVars

\* uxTempTime = portTEST_GET_TIME(); then the inner for starts at iItems = 0.
ProducerStart(w) ==
    /\ wpc[w] = "get_start"
    /\ \E t \in 0 .. MaxClock :
          uxTempTime' = [uxTempTime EXCEPT ![w] = t]
    /\ iItems' = [iItems EXCEPT ![w] = 0]
    /\ wpc' = [wpc EXCEPT ![w] =
                 IF 0 < portTEST_NUM_ITEMS THEN "send" ELSE "get_end"]
    /\ UNCHANGED << coordVars, kernelObjs, semCount, xQueue,
                    uxElapsedCumulative, iSamples, ulNotifiedValue, gives,
                    takes, dones, semTaken, samples, qUsers >>
    /\ UNCHANGED auxVars

\* Slip: <= for < in the inner loop test, one xQueueSend too many.
ProducerSendOneMore(w) ==
    /\ wpc[w] = "send"
    /\ LET c == WorkerCoreID(w)
           Temp == iItems[w]
       IN  /\ qUsers' = [qUsers EXCEPT ![c] = @ \cup {w}]
           /\ IF xQueueSendResult(xQueue[c], portTEST_NUM_ITEMS) = pdTRUE
              THEN /\ xQueue' = [xQueue EXCEPT
                          ![c] = xQueueSendItems(@, portTEST_NUM_ITEMS, Temp)]
                   /\ iItems' = [iItems EXCEPT ![w] = @ + 1]
                   /\ wpc' = [wpc EXCEPT ![w] =
                                IF iItems[w] + 1 <= portTEST_NUM_ITEMS
                                THEN "send" ELSE "get_end"]
              ELSE /\ wpc' = [wpc EXCEPT ![w] = "failed"]
                   /\ UNCHANGED << xQueue, iItems >>
    /\ UNCHANGED << coordVars, kernelObjs, semCount, uxElapsedCumulative,
                    iSamples, uxTempTime, ulNotifiedValue, gives, takes,
                    dones, semTaken, samples >>
    /\ UNCHANGED auxVars

\* int Temp = iItems;
\* TEST_ASSERT_EQUAL_MESSAGE(pdTRUE, xQueueSend(xQueueHandles[core], &Temp, 0), ...);
\* then iItems++ and the inner loop test.
ProducerSend(w) ==
    /\ wpc[w] = "send"
    /\ LET c == WorkerCoreID(w)
           Temp == iItems[w]
       IN  /\ qUsers' = [qUsers EXCEPT ![c] = @ \cup {w}]
           /\ IF xQueueSendResult(xQueue[c], portTEST_NUM_ITEMS) = pdTRUE
              THEN /\ xQueue' = [xQueue EXCEPT
                          ![c] = xQueueSendItems(@, portTEST_NUM_ITEMS, Temp)]
                   /\ iItems' = [iItems EXCEPT ![w] = @ + 1]
                   /\ wpc' = [wpc EXCEPT ![w] =
                                IF iItems[w] + 1 < portTEST_NUM_ITEMS
                                THEN "send" ELSE "get_end"]
              ELSE /\ wpc' = [wpc EXCEPT ![w] = "failed"]
                   /\ UNCHANGED << xQueue, iItems >>
    /\ UNCHANGED << coordVars, kernelObjs, semCount, uxElapsedCumulative,
                    iSamples, uxTempTime, ulNotifiedValue, gives, takes,
                    dones, semTaken, samples >>
    /\ UNCHANGED auxVars

\* uxElapsedCumulative[core] += portTEST_GET_TIME() - uxTempTime;
ProducerEnd(w) ==
    /\ wpc[w] = "get_end"
    /\ \E d \in 0 .. MaxElapsed :
          LET c == WorkerCoreID(w)
              tEnd == uxTempTime[w] + d
          IN  /\ uxElapsedCumulative' = [uxElapsedCumulative EXCEPT
                     ![c] = Accumulate(@, tEnd, uxTempTime[w])]
              /\ samples' = [samples EXCEPT
                     ![c] = Append(@, [by |-> w, val |-> tEnd - uxTempTime[w]])]
    /\ wpc' = [wpc EXCEPT ![w] = "reset"]
    /\ UNCHANGED << coordVars, kernelObjs, semCount, xQueue, workerLocals,
                    ulNotifiedValue, gives, takes, dones, semTaken, qUsers >>
    /\ UNCHANGED auxVars

\* Slip: the queue is not reset at the end of the round.
ProducerResetSkipped(w) ==
    /\ wpc[w] = "reset"
    /\ wpc' = [wpc EXCEPT ![w] = "give"]
    /\ UNCHANGED << coordVars, kernelObjs, semCount, xQueue,
                    uxElapsedCumulative, workerLocals, ulNotifiedValue,
                    gives, takes, dones, semTaken, samples, qUsers >>
    /\ UNCHANGED auxVars

\* xQueueReset(xQueueHandles[core]);
ProducerReset(w) ==
    /\ wpc[w] = "reset"
    /\ LET c == WorkerCoreID(w)
       IN  /\ xQueue' = [xQueue EXCEPT ![c] = xQueueReset(@)]
           /\ qUsers' = [qUsers EXCEPT ![c] = @ \cup {w}]
    /\ wpc' = [wpc EXCEPT ![w] = "give"]
    /\ UNCHANGED << coordVars, kernelObjs, semCount, uxElapsedCumulative,
                    workerLocals, ulNotifiedValue, gives, takes, dones,
                    semTaken, samples >>
    /\ UNCHANGED auxVars

\* xSemaphoreGive((SemaphoreHandle_t) pvParameters); return value ignored.
ProducerGive(w) ==
    /\ wpc[w] = "give"
    /\ semCount' = xSemaphoreGiveCount(semCount, SemMaxCount)
    /\ dones' = [dones EXCEPT ![w] = @ + 1]
    /\ wpc' = [wpc EXCEPT ![w] = "loop_next"]
    /\ UNCHANGED << coordVars, kernelObjs, xQueue, uxElapsedCumulative,
                    workerLocals, ulNotifiedValue, gives, takes,
                    semTaken, samples, qUsers >>
    /\ UNCHANGED auxVars

\* iSamples++ and the test iSamples < portTEST_NUM_SAMPLES of the outer for
\* loop.  The completion signal is already given, so the coordinator may
\* move on before the producer has counted the round.
ProducerNext(w) ==
    /\ wpc[w] = "loop_next"
    /\ iSamples' = [iSamples EXCEPT ![w] = @ + 1]
    /\ wpc' = [wpc EXCEPT ![w] = ProducerAfterGive(iSamples[w] + 1)]
    /\ UNCHANGED << coordVars, kernelObjs, semCount, xQueue,
                    uxElapsedCumulative, iItems, uxTempTime,
                    ulNotifiedValue, gives, takes, dones, semTaken,
                    samples, qUsers >>
    /\ UNCHANGED auxVars

\* vTaskSuspend(NULL);
ProducerSuspend(w) ==
    /\ wpc[w] = "suspend_call"
    /\ wpc' = [wpc EXCEPT ![w] = "suspended"]
    /\ UNCHANGED << coordVars, kernelObjs, semCount, xQueue,
                    uxElapsedCumulative, workerLocals, ulNotifiedValue,
                    gives, takes, dones, semTaken, samples, qUsers >>
    /\ UNCHANGED auxVars

Producer(w) ==
    \/ ProducerTake(w)
    \/ ProducerStart(w)
    \/ ProducerSend(w)
    \/ ProducerEnd(w)
    \/ ProducerReset(w)
    \/ ProducerGive(w)
    \/ ProducerNext(w)
    \/ ProducerSuspend(w)

\* ------------------------------------------------------------------------
\* Test_QueueContention
\* ------------------------------------------------------------------------
\* Slip: the first loop releases every producer, the local one included.
ShouldReleaseAll(ic, coreId) == TRUE

\* Slip: the test is inverted, the first loop releases only the local producer.
ShouldReleaseLocal(ic, coreId) == ic = coreId

\* if (iCore != portGET_CORE_ID())
ShouldRelease(ic, coreId) == ic # coreId

\* Slip: the wait loop runs one pass short.
WaitCountShort == configNUMBER_OF_CORES - 1

\* Slip: the wait loop runs one pass too many (<= for <).
WaitCountOver == configNUMBER_OF_CORES + 1

\* for (iCore = 0; iCore < configNUMBER_OF_CORES; iCore++) xSemaphoreTake(...)
WaitCount == configNUMBER_OF_CORES

\* uxElapsedCumulative[iCore] / portTEST_NUM_SAMPLES
Average(total) == total \div portTEST_NUM_SAMPLES

\* One pass of the first inner loop: release producer iCore unless it is the
\* one on the coordinator's own core.
CoordReleaseOthers ==
    /\ mpc = "release_others"
    /\ IF ShouldRelease(iCore, mainCore)
       THEN /\ ulNotifiedValue' = xTaskNotifyGive(ulNotifiedValue, TaskOf(iCore))
            /\ gives' = [gives EXCEPT ![TaskOf(iCore)] = @ + 1]
       ELSE UNCHANGED << ulNotifiedValue, gives >>
    /\ IF iCore + 1 < configNUMBER_OF_CORES
       THEN /\ iCore' = iCore + 1
            /\ mpc' = "release_others"
       ELSE /\ iCore' = iCore + 1
            /\ mpc' = "release_self"
    /\ UNCHANGED << iIter, mainCore, report, kernelObjs, semCount, xQueue,
                    uxElapsedCumulative, wpc, workerLocals, takes, dones,
                    semTaken, samples, qUsers >>
    /\ UNCHANGED auxVars

\* xTaskNotifyGive(xProducerTaskHandles[portGET_CORE_ID()]); then the wait
\* loop starts at iCore = 0.
CoordReleaseSelf ==
    /\ mpc = "release_self"
    /\ ulNotifiedValue' = xTaskNotifyGive(ulNotifiedValue, TaskOf(mainCore))
    /\ gives' = [gives EXCEPT ![TaskOf(mainCore)] = @ + 1]
    /\ iCore' = 0
    /\ mpc' = "wait"
    /\ UNCHANGED << iIter, mainCore, report, kernelObjs, semCount, xQueue,
                    uxElapsedCumulative, wpc, workerLocals, takes, dones,
                    semTaken, samples, qUsers >>
    /\ UNCHANGED auxVars

\* xSemaphoreTake(xIterDoneSem, portMAX_DELAY); after the last take of the
\* round, iIter++ and the outer loop test.
CoordTake ==
    /\ mpc = "wait"
    /\ semCount > 0
    /\ semCount' = semCount - 1
    /\ semTaken' = semTaken + 1
    /\ IF iCore + 1 < WaitCount
       THEN /\ iCore' = iCore + 1
            /\ UNCHANGED << iIter, mpc >>
       ELSE /\ iCore' = 0
            /\ iIter' = iIter + 1
            /\ mpc' = IF iIter + 1 < portTEST_NUM_SAMPLES
                      THEN "release_others" ELSE "print"
    /\ UNCHANGED << mainCore, report, kernelObjs, xQueue,
                    uxElapsedCumulative, wpc, workerLocals, ulNotifiedValue,
                    gives, takes, dones, samples, qUsers >>
    /\ UNCHANGED auxVars

\* printf("Core %d: %d\n", iCore, uxElapsedCumulative[iCore] / portTEST_NUM_SAMPLES);
CoordPrint ==
    /\ mpc = "print"
    /\ report' = Append(report, [core |-> iCore,
                                 avg |-> Average(uxElapsedCumulative[iCore])])
    /\ IF iCore + 1 < configNUMBER_OF_CORES
       THEN /\ iCore' = iCore + 1
            /\ UNCHANGED mpc
       ELSE /\ iCore' = 0
            /\ mpc' = "td_sem"
    /\ UNCHANGED << iIter, mainCore, kernelObjs, semCount, xQueue,
                    uxElapsedCumulative, wpc, workerLocals, ulNotifiedValue,
                    gives, takes, dones, semTaken, samples, qUsers >>
    /\ UNCHANGED auxVars

\* ------------------------------------------------------------------------
\* teardown_idf
\* ------------------------------------------------------------------------
\* vSemaphoreDelete(xIterDoneSem);
TeardownSem ==
    /\ mpc = "td_sem"
    /\ semState' = "deleted"
    /\ iCore' = 0
    /\ mpc' = "td_task"
    /\ UNCHANGED << iIter, mainCore, report, semCount, qState, xQueue,
                    uxElapsedCumulative, wpc, workerLocals, ulNotifiedValue,
                    gives, takes, dones, semTaken, samples, qUsers >>
    /\ UNCHANGED auxVars

\* vTaskDelete(xProducerTaskHandles[i]);
TeardownTask ==
    /\ mpc = "td_task"
    /\ wpc' = [wpc EXCEPT ![TaskOf(iCore)] = "deleted"]
    /\ mpc' = "td_queue"
    /\ UNCHANGED << iIter, iCore, mainCore, report, kernelObjs, semCount,
                    xQueue, uxElapsedCumulative, workerLocals,
                    ulNotifiedValue, gives, takes, dones, semTaken, samples,
                    qUsers >>
    /\ UNCHANGED auxVars

\* vQueueDelete(xQueueHandles[i]);
TeardownQueue ==
    /\ mpc = "td_queue"
    /\ qState' = [qState EXCEPT ![iCore] = "deleted"]
    /\ IF iCore + 1 < configNUMBER_OF_CORES
       THEN /\ iCore' = iCore + 1
            /\ mpc' = "td_task"
       ELSE /\ iCore' = iCore + 1
            /\ mpc' = "end"
    /\ UNCHANGED << iIter, mainCore, report, semState, semCount, xQueue,
                    uxElapsedCumulative, wpc, workerLocals, ulNotifiedValue,
                    gives, takes, dones, semTaken, samples, qUsers >>
    /\ UNCHANGED auxVars

Coordinator ==
    \/ SetupReset
    \/ SetupCreateSem
    \/ SetupCreateQueue
    \/ SetupCreateTask
    \/ CoordReleaseOthers
    \/ CoordReleaseSelf
    \/ CoordTake
    \/ CoordPrint
    \/ TeardownSem
    \/ TeardownTask
    \/ TeardownQueue

Next == Coordinator \/ \E w \in Cores : Producer(w)

Spec == Init /\ [][Next]_vars

\* Fair scheduling of the coordinator and of every producer task.
FairSpec == Spec /\ WF_vars(Coordinator) /\ \A w \in Cores : WF_vars(Producer(w))

\* Fixed-priority preemptive scheduling on the coordinator's core: the
\* producers are created at uxTaskPriorityGet(NULL) + 1 and pinned to core
\* i, so the coordinator runs only while the producer on its own core is
\* blocked in ulTaskNotifyTake, suspended, deleted or not yet created.
\* Producers on other cores run in parallel with it.
LocalProducerReady ==
    LET l == TaskOf(mainCore)
    IN  \/ wpc[l] \in {"get_start", "send", "get_end", "reset", "give",
                        "loop_next", "suspend_call"}
        \/ wpc[l] = "notify_take" /\ NotifyTakeReady(ulNotifiedValue, l)

PriorityNext ==
    \/ ~ LocalProducerReady /\ Coordinator
    \/ \E w \in Cores : Producer(w)

PrioritySpec == Init /\ [][PriorityNext]_vars

\* The coordinator's core id.  Nothing in queue_contention.c pins the task
\* that runs the TEST_CASE body, and portGET_CORE_ID() is evaluated anew in
\* every pass of the release loop (line 146) and again for the final
\* release (line 153).  Migrate is the scheduler moving the coordinator to
\* another core between the release loop and the final release; it is taken
\* at most once in a run.
Migrate ==
    /\ mpc = "release_self"
    /\ migratedAt = << >>
    /\ \E c \in Cores \ {mainCore} :
          /\ mainCore' = c
          /\ migratedAt' = << [round |-> iIter, from |-> mainCore, to |-> c] >>
    /\ UNCHANGED << mpc, iIter, iCore, report, kernelObjs, semCount, xQueue,
                    uxElapsedCumulative, wpc, workerLocals, ulNotifiedValue,
                    gives, takes, dones, semTaken, samples, qUsers >>
    /\ UNCHANGED << csVars, qsVars >>

MigrateNext == Next \/ Migrate

\* The benchmark with a coordinator that is not pinned to a core.
MigrateSpec == Init /\ [][MigrateNext]_vars

\* ------------------------------------------------------------------------
\* crit_speed.c: Test_CriticalSectionSpeed
\* ------------------------------------------------------------------------
\* taskENTER_CRITICAL() / portENTER_CRITICAL(&mux), by contract: the caller
\* holds the critical section one nesting level deeper.
portENTER_CRITICAL(m) == m + 1

\* taskEXIT_CRITICAL() / portEXIT_CRITICAL(&mux), by contract: one nesting
\* level less; the critical section is free at level 0.
portEXIT_CRITICAL(m) == m - 1

\* for (i = 0; i < portTEST_NUM_SAMPLES; i++): the statement that follows
\* the loop test with counter k.
CsLoopTest(k) == IF k < portTEST_NUM_SAMPLES THEN "entry_start" ELSE "print_entry"

\* Entry to Test_CriticalSectionSpeed: locals initialised, first loop test.
CsInit == QcIdle /\ QsIdle /\ CsLocalsZero /\ cs_pc = CsLoopTest(0)

\* uxTemp = portTEST_GET_TIME();   (before the enter call)
CsEntryStart ==
    /\ cs_pc = "entry_start"
    /\ \E t \in 0 .. MaxClock : cs_uxTemp' = t
    /\ cs_window' = << >>
    /\ cs_pc' = "enter"
    /\ UNCHANGED << cs_i, uxEntryElapsedCumulative, uxExitElapsedCumulative,
                    mux, cs_samples, cs_report >>
    /\ UNCHANGED << qcVars, migratedAt, qsVars >>

\* taskENTER_CRITICAL();  or  portENTER_CRITICAL(&mux);
CsEnter ==
    /\ cs_pc = "enter"
    /\ mux' = portENTER_CRITICAL(mux)
    /\ cs_window' = Append(cs_window, "enter")
    /\ cs_pc' = "entry_end"
    /\ UNCHANGED << cs_i, uxEntryElapsedCumulative, uxExitElapsedCumulative,
                    cs_uxTemp, cs_samples, cs_report >>
    /\ UNCHANGED << qcVars, migratedAt, qsVars >>

\* uxEntryElapsedCumulative += (portTEST_GET_TIME() - uxTemp);
CsEntryEnd ==
    /\ cs_pc = "entry_end"
    /\ \E d \in 0 .. MaxElapsed :
          LET tEnd == cs_uxTemp + d
          IN  /\ uxEntryElapsedCumulative' =
                    Accumulate(uxEntryElapsedCumulative, tEnd, cs_uxTemp)
              /\ cs_samples' = Append(cs_samples,
                    [what |-> "enter", calls |-> cs_window,
                     val |-> tEnd - cs_uxTemp])
    /\ cs_pc' = "exit_start"
    /\ UNCHANGED << cs_i, uxExitElapsedCumulative, cs_uxTemp, mux, cs_window,
                    cs_report >>
    /\ UNCHANGED << qcVars, migratedAt, qsVars >>

\* uxTemp = portTEST_GET_TIME();   (before the exit call)
CsExitStart ==
    /\ cs_pc = "exit_start"
    /\ \E t \in 0 .. MaxClock : cs_uxTemp' = t
    /\ cs_window' = << >>
    /\ cs_pc' = "exit"
    /\ UNCHANGED << cs_i, uxEntryElapsedCumulative, uxExitElapsedCumulative,
                    mux, cs_samples, cs_report >>
    /\ UNCHANGED << qcVars, migratedAt, qsVars >>

\* Slip: the second timed call of the loop body enters again instead of
\* exiting.
CsExitEntersAgain ==
    /\ cs_pc = "exit"
    /\ mux' = portENTER_CRITICAL(mux)
    /\ cs_window' = Append(cs_window, "enter")
    /\ cs_pc' = "exit_end"
    /\ UNCHANGED << cs_i, uxEntryElapsedCumulative, uxExitElapsedCumulative,
                    cs_uxTemp, cs_samples, cs_report >>
    /\ UNCHANGED << qcVars, migratedAt, qsVars >>

\* taskEXIT_CRITICAL();  or  portEXIT_CRITICAL(&mux);
CsExit ==
    /\ cs_pc = "exit"
    /\ mux' = portEXIT_CRITICAL(mux)
    /\ cs_window' = Append(cs_window, "exit")
    /\ cs_pc' = "exit_end"
    /\ UNCHANGED << cs_i, uxEntryElapsedCumulative, uxExitElapsedCumulative,
                    cs_uxTemp, cs_samples, cs_report >>
    /\ UNCHANGED << qcVars, migratedAt, qsVars >>

\* uxExitElapsedCumulative += (portTEST_GET_TIME() - uxTemp); then i++ and
\* the loop test.
CsExitEnd ==
    /\ cs_pc = "exit_end"
    /\ \E d \in 0 .. MaxElapsed :
          LET tEnd == cs_uxTemp + d
          IN  /\ uxExitElapsedCumulative' =
                    Accumulate(uxExitElapsedCumulative, tEnd, cs_uxTemp)
              /\ cs_samples' = Append(cs_samples,
                    [what |-> "exit", calls |-> cs_window,
                     val |-> tEnd - cs_uxTemp])
    /\ cs_i' = cs_i + 1
    /\ cs_pc' = CsLoopTest(cs_i + 1)
    /\ UNCHANGED << uxEntryElapsedCumulative, cs_uxTemp, mux, cs_window,
                    cs_report >>
    /\ UNCHANGED << qcVars, migratedAt, qsVars >>

\* printf("taskENTER_CRITICAL() average elapsed time: %u\n", ...);
CsPrintEntry ==
    /\ cs_pc = "print_entry"
    /\ cs_report' = Append(cs_report,
          [what |-> "enter", avg |-> Average(uxEntryElapsedCumulative)])
    /\ cs_pc' = "print_exit"
    /\ UNCHANGED << cs_i, uxEntryElapsedCumulative, uxExitElapsedCumulative,
                    cs_uxTemp, mux, cs_window, cs_samples >>
    /\ UNCHANGED << qcVars, migratedAt, qsVars >>

\* printf("taskEXIT_CRITICAL() average elapsed time: %u\n", ...); return.
CsPrintExit ==
    /\ cs_pc = "print_exit"
    /\ cs_report' = Append(cs_report,
          [what |-> "exit", avg |-> Average(uxExitElapsedCumulative)])
    /\ cs_pc' = "end"
    /\ UNCHANGED << cs_i, uxEntryElapsedCumulative, uxExitElapsedCumulative,
                    cs_uxTemp, mux, cs_window, cs_samples >>
    /\ UNCHANGED << qcVars, migratedAt, qsVars >>

CritNext ==
    \/ CsEntryStart
    \/ CsEnter
    \/ CsEntryEnd
    \/ CsExitStart
    \/ CsExit
    \/ CsExitEnd
    \/ CsPrintEntry
    \/ CsPrintExit

CritSpec == CsInit /\ [][CritNext]_vars

\* ------------------------------------------------------------------------
\* queue_speed.c: setup_idf, Test_QueueSpeedNonBlocking, teardown_idf
\* ------------------------------------------------------------------------
\* xQueueReceive(q, &v, 0): pdTRUE and the oldest item when the queue is
\* not empty, errQUEUE_EMPTY (0) at once otherwise.
xQueueReceiveResult(q) == IF q # << >> THEN pdTRUE ELSE errQUEUE_EMPTY

xQueueReceiveItems(q) == IF q # << >> THEN Tail(q) ELSE q

\* Slip: the queue is created one slot too short.
QsQueueLengthShort == portTEST_NUM_SAMPLES - 1

\* xQueueCreate(portTEST_NUM_SAMPLES, sizeof(int)): the queue length.
QsQueueLength == portTEST_NUM_SAMPLES

\* for (i = 0; i < portTEST_NUM_SAMPLES; i++) of the send loop: the
\* statement that follows the loop test with counter k; the receive loop
\* starts with its own test of i = 0.
QsSendLoopTest(k) ==
    IF k < portTEST_NUM_SAMPLES THEN "send_start"
    ELSE IF 0 < portTEST_NUM_SAMPLES THEN "recv_start" ELSE "print_send"

\* The loop test of the receive loop with counter k.
QsRecvLoopTest(k) ==
    IF k < portTEST_NUM_SAMPLES THEN "recv_start" ELSE "print_send"

\* Entry to the TEST_CASE body of queue_speed.c.
QsInit == QcIdle /\ CsIdle /\ QsNothingCreated /\ qs_pc = "setup"

\* xQueueHandle = xQueueCreate(portTEST_NUM_SAMPLES, sizeof(int));
\* TEST_ASSERT_NOT_NULL_MESSAGE aborts the test case when creation failed;
\* otherwise Test_QueueSpeedNonBlocking starts with zeroed locals.
QsSetup ==
    /\ qs_pc = "setup"
    /\ \E ok \in BOOLEAN :
          IF ok
          THEN /\ xQueueHandle' = "live"
               /\ qs_items' = << >>
               /\ qs_pc' = QsSendLoopTest(0)
          ELSE /\ qs_pc' = "aborted"
               /\ UNCHANGED << xQueueHandle, qs_items >>
    /\ UNCHANGED << qs_i, uxSendElapsedCumulative, uxRecvElapsedCumulative,
                    qs_uxTemp, iValue, qs_samples, qs_report >>
    /\ UNCHANGED << qcVars, migratedAt, csVars >>

\* uxTemp = portTEST_GET_TIME();   (send loop)
QsSendStart ==
    /\ qs_pc = "send_start"
    /\ \E t \in 0 .. MaxClock : qs_uxTemp' = t
    /\ qs_pc' = "send"
    /\ UNCHANGED << qs_i, uxSendElapsedCumulative, uxRecvElapsedCumulative,
                    xQueueHandle, qs_items, iValue, qs_samples, qs_report >>
    /\ UNCHANGED << qcVars, migratedAt, csVars >>

\* TEST_ASSERT_EQUAL_MESSAGE(pdTRUE, xQueueSend(xQueueHandle, &i, 0), ...);
QsSend ==
    /\ qs_pc = "send"
    /\ IF xQueueSendResult(qs_items, QsQueueLength) = pdTRUE
       THEN /\ qs_items' = xQueueSendItems(qs_items, QsQueueLength, qs_i)
            /\ qs_pc' = "send_end"
       ELSE /\ qs_pc' = "failed"
            /\ UNCHANGED qs_items
    /\ UNCHANGED << qs_i, uxSendElapsedCumulative, uxRecvElapsedCumulative,
                    qs_uxTemp, xQueueHandle, iValue, qs_samples, qs_report >>
    /\ UNCHANGED << qcVars, migratedAt, csVars >>

\* uxSendElapsedCumulative += (portTEST_GET_TIME() - uxTemp); then i++ and
\* the loop test; after the last pass the receive loop starts at i = 0.
QsSendEnd ==
    /\ qs_pc = "send_end"
    /\ \E d \in 0 .. MaxElapsed :
          LET tEnd == qs_uxTemp + d
          IN  /\ uxSendElapsedCumulative' =
                    Accumulate(uxSendElapsedCumulative, tEnd, qs_uxTemp)
              /\ qs_samples' = Append(qs_samples,
                    [what |-> "send", val |-> tEnd - qs_uxTemp])
    /\ qs_i' = IF qs_i + 1 < portTEST_NUM_SAMPLES THEN qs_i + 1 ELSE 0
    /\ qs_pc' = QsSendLoopTest(qs_i + 1)
    /\ UNCHANGED << uxRecvElapsedCumulative, qs_uxTemp, xQueueHandle,
                    qs_items, iValue, qs_report >>
    /\ UNCHANGED << qcVars, migratedAt, csVars >>

\* uxTemp = portTEST_GET_TIME();   (receive loop)
QsRecvStart ==
    /\ qs_pc = "recv_start"
    /\ \E t \in 0 .. MaxClock : qs_uxTemp' = t
    /\ qs_pc' = "recv"
    /\ UNCHANGED << qs_i, uxSendElapsedCumulative, uxRecvElapsedCumulative,
                    xQueueHandle, qs_items, iValue, qs_samples, qs_report >>
    /\ UNCHANGED << qcVars, migratedAt, csVars >>

\* TEST_ASSERT_EQUAL_MESSAGE(pdTRUE, xQueueReceive(xQueueHandle, &iValue, 0), ...);
QsRecv ==
    /\ qs_pc = "recv"
    /\ IF xQueueReceiveResult(qs_items) = pdTRUE
       THEN /\ iValue' = Append(iValue, Head(qs_items))
            /\ qs_items' = xQueueReceiveItems(qs_items)
            /\ qs_pc' = "recv_end"
       ELSE /\ qs_pc' = "failed"
            /\ UNCHANGED << qs_items, iValue >>
    /\ UNCHANGED << qs_i, uxSendElapsedCumulative, uxRecvElapsedCumulative,
                    qs_uxTemp, xQueueHandle, qs_samples, qs_report >>
    /\ UNCHANGED << qcVars, migratedAt, csVars >>

\* uxRecvElapsedCumulative += (portTEST_GET_TIME() - uxTemp); then i++ and
\* the loop test.
QsRecvEnd ==
    /\ qs_pc = "recv_end"
    /\ \E d \in 0 .. MaxElapsed :
          LET tEnd == qs_uxTemp + d
          IN  /\ uxRecvElapsedCumulative' =
                    Accumulate(uxRecvElapsedCumulative, tEnd, qs_uxTemp)
              /\ qs_samples' = Append(qs_samples,
                    [what |-> "recv", val |-> tEnd - qs_uxTemp])
    /\ qs_i' = qs_i + 1
    /\ qs_pc' = QsRecvLoopTest(qs_i + 1)
    /\ UNCHANGED << uxSendElapsedCumulative, qs_uxTemp, xQueueHandle,
                    qs_items, iValue, qs_report >>
    /\ UNCHANGED << qcVars, migratedAt, csVars >>

\* printf("xQueueSend() average elapsed time: %u\n", ...);
QsPrintSend ==
    /\ qs_pc = "print_send"
    /\ qs_report' = Append(qs_report,
          [what |-> "send", avg |-> Average(uxSendElapsedCumulative)])
    /\ qs_pc' = "print_recv"
    /\ UNCHANGED << qs_i, uxSendElapsedCumulative, uxRecvElapsedCumulative,
                    qs_uxTemp, xQueueHandle, qs_items, iValue, qs_samples >>
    /\ UNCHANGED << qcVars, migratedAt, csVars >>

\* printf("xQueueReceive() average elapsed time: %u\n", ...); return.
QsPrintRecv ==
    /\ qs_pc = "print_recv"
    /\ qs_report' = Append(qs_report,
          [what |-> "recv", avg |-> Average(uxRecvElapsedCumulative)])
    /\ qs_pc' = "teardown"
    /\ UNCHANGED << qs_i, uxSendElapsedCumulative, uxRecvElapsedCumulative,
                    qs_uxTemp, xQueueHandle, qs_items, iValue, qs_samples >>
    /\ UNCHANGED << qcVars, migratedAt, csVars >>

\* vQueueDelete(xQueueHandle); xQueueHandle = NULL;
QsTeardown ==
    /\ qs_pc = "teardown"
    /\ xQueueHandle' = "null"
    /\ qs_items' = << >>
    /\ qs_pc' = "end"
    /\ UNCHANGED << qs_i, uxSendElapsedCumulative, uxRecvElapsedCumulative,
                    qs_uxTemp, iValue, qs_samples, qs_report >>
    /\ UNCHANGED << qcVars, migratedAt, csVars >>

QueueSpeedNext ==
    \/ QsSetup
    \/ QsSendStart
    \/ QsSend
    \/ QsSendEnd
    \/ QsRecvStart
    \/ QsRecv
    \/ QsRecvEnd
    \/ QsPrintSend
    \/ QsPrintRecv
    \/ QsTeardown

QueueSpeedSpec == QsInit /\ [][QueueSpeedNext]_vars

TypeOK ==
    /\ mpc \in {"setup_reset", "setup_sem", "setup_queue", "setup_task",
                "release_others", "release_self", "wait", "print", "td_sem",
                "td_task", "td_queue", "end", "aborted"}
    /\ iIter \in 0 .. portTEST_NUM_SAMPLES
    /\ iCore \in 0 .. configNUMBER_OF_CORES
    /\ mainCore \in Cores
    /\ semCount \in Nat
    /\ \A i \in Cores :
          /\ wpc[i] \in {"none", "notify_take", "get_start", "send", "get_end",
                         "reset", "give", "loop_next", "suspend_call",
                         "suspended", "failed", "deleted"}
          /\ iSamples[i] \in 0 .. portTEST_NUM_SAMPLES
          /\ iItems[i] \in 0 .. portTEST_NUM_ITEMS
          /\ ulNotifiedValue[i] \in Nat

\* ------------------------------------------------------------------------
\* Vocabulary of the properties
\* ------------------------------------------------------------------------
\* Between the two clock samples of a round.
InTimedRegion(w) == wpc[w] \in {"send", "get_end"}

\* Between consuming a release and giving the completion signal.
RunningIteration(w) == wpc[w] \in {"get_start", "send", "get_end", "reset", "give"}

\* The loop has been left: at the vTaskSuspend call or suspended by it.
LeftLoop(w) == wpc[w] \in {"suspend_call", "suspended"}

\* The coordinator is inside the iteration loop of Test_QueueContention.
InRounds == mpc \in {"release_others", "release_self", "wait"}

\* Test_QueueContention has left its iteration loop.
RoundsOver == mpc \in {"print", "td_sem", "td_task", "td_queue", "end"}

\* ------------------------------------------------------------------------
\* C1. Rounds are strictly serialized: whenever the coordinator issues a
\* release while its round counter is iIter, it has already consumed all
\* configNUMBER_OF_CORES completion signals of each of the iIter earlier
\* rounds, and every producer has finished (signalled) all of those rounds.
\* ------------------------------------------------------------------------
C1_RoundsSerialized ==
    [][ (\E w \in Cores : gives'[w] # gives[w]) =>
           /\ semTaken = configNUMBER_OF_CORES * iIter
           /\ \A v \in Cores : /\ dones[v] >= iIter
                                /\ ~ RunningIteration(v) => takes[v] >= iIter ]_vars

\* A release of the second round has been issued.
C1_Witness == \E w \in Cores : gives[w] = 2 /\ iIter = 1

\* ------------------------------------------------------------------------
\* C2. Exactly one release per producer per round, consumed exactly once,
\* answered by exactly one completion signal, and exactly
\* configNUMBER_OF_CORES completion signals consumed per round.  In terms
\* of the running totals: a producer never holds more releases than rounds
\* started, at the start of a round every total stands at iIter (per
\* producer) or configNUMBER_OF_CORES * iIter (takes), while waiting every
\* producer has been released iIter + 1 times, and a producer has consumed
\* one release more than it has signalled exactly while it runs an
\* iteration.
\* ------------------------------------------------------------------------
C2_ExactlyOncePerRound ==
    /\ \A w \in Cores :
          /\ gives[w] \in {iIter, iIter + 1}
          /\ gives[w] = iIter + 1 => InRounds
          /\ dones[w] <= takes[w] /\ takes[w] <= gives[w]
          /\ takes[w] = dones[w] + (IF RunningIteration(w) THEN 1 ELSE 0)
          /\ wpc[w] \notin {"loop_next", "deleted"} => dones[w] = iSamples[w]
          /\ wpc[w] = "loop_next" => dones[w] = iSamples[w] + 1
          /\ dones[w] \in {iIter - 1, iIter, iIter + 1}
          /\ dones[w] = iIter - 1 => mpc = "wait"
    /\ (mpc = "release_others" /\ iCore = 0) =>
          /\ semTaken = configNUMBER_OF_CORES * iIter
          /\ \A w \in Cores : gives[w] = iIter /\ takes[w] = iIter /\ dones[w] = iIter
    /\ mpc = "wait" =>
          /\ \A w \in Cores : gives[w] = iIter + 1
          /\ semTaken = configNUMBER_OF_CORES * iIter + iCore
    /\ RoundsOver =>
          /\ iIter = portTEST_NUM_SAMPLES
          /\ semTaken = configNUMBER_OF_CORES * portTEST_NUM_SAMPLES
          /\ \A w \in Cores : /\ gives[w] = portTEST_NUM_SAMPLES
                               /\ takes[w] = portTEST_NUM_SAMPLES
                               /\ dones[w] = portTEST_NUM_SAMPLES

\* The last round is complete: every producer released, run and signalled
\* portTEST_NUM_SAMPLES times.
C2_Witness ==
    /\ mpc = "print"
    /\ \A w \in Cores : takes[w] = portTEST_NUM_SAMPLES
\* ------------------------------------------------------------------------
\* C3. Under fair scheduling the run does not hang: once setup has handed
\* over to the iteration loop, the coordinator eventually leaves it and
\* finishes reporting; nothing is reported before all portTEST_NUM_SAMPLES
\* rounds are complete, and the finished report has exactly one line per
\* core, for cores 0 .. configNUMBER_OF_CORES - 1 in order.
\* ------------------------------------------------------------------------
ReportComplete == mpc \in {"td_sem", "td_task", "td_queue", "end"}

C3_ReportSafety ==
    /\ Len(report) <= configNUMBER_OF_CORES
    /\ Len(report) > 0 =>
          /\ iIter = portTEST_NUM_SAMPLES
          /\ semTaken = configNUMBER_OF_CORES * portTEST_NUM_SAMPLES
    /\ ~ RoundsOver => report = << >>
    /\ ReportComplete =>
          /\ Len(report) = configNUMBER_OF_CORES
          /\ \A k \in 1 .. Len(report) : report[k].core = k - 1

C3_CompletesThenReports ==
    /\ [] C3_ReportSafety
    /\ InRounds ~> ReportComplete

\* The report is finished.
C3_Witness == mpc = "td_sem" /\ Len(report) = configNUMBER_OF_CORES

\* ------------------------------------------------------------------------
\* C4. Every reported value is the integer quotient, remainder discarded,
\* of that core's accumulator by portTEST_NUM_SAMPLES, and the accumulator
\* is zero-based: from setup on it equals the sum of the Samples added to
\* it, which at report time are exactly portTEST_NUM_SAMPLES Samples, all
\* produced by the producer pinned to that core.
\* ------------------------------------------------------------------------
C4_AverageIsQuotientOfSum ==
    /\ mpc # "setup_reset" =>
          \A c \in Cores : uxElapsedCumulative[c] = SumVals(samples[c])
    /\ \A k \in 1 .. Len(report) :
          LET c == report[k].core
          IN  /\ report[k].avg * portTEST_NUM_SAMPLES <= uxElapsedCumulative[c]
              /\ uxElapsedCumulative[c] < (report[k].avg + 1) * portTEST_NUM_SAMPLES
              /\ Len(samples[c]) = portTEST_NUM_SAMPLES
              /\ \A j \in 1 .. Len(samples[c]) : samples[c][j].by = TaskOf(c)

\* A complete report containing a total that is not a multiple of the
\* iteration count, so that a remainder was discarded.
C4_Witness ==
    /\ Len(report) = configNUMBER_OF_CORES
    /\ \E k \in 1 .. Len(report) :
          uxElapsedCumulative[report[k].core] % portTEST_NUM_SAMPLES # 0

\* ------------------------------------------------------------------------
\* C5. Private-resource isolation: a core's queue is sent to and reset only
\* by the producer pinned to that core; the queue is empty after each reset
\* and hence at the start of every round; at every xQueueSend the queue
\* holds exactly the iItems items sent so far in this round, fewer than its
\* capacity; no producer ever takes the "queue full" branch.
\* ------------------------------------------------------------------------
C5_QueueIsolation ==
    \A c \in Cores :
       LET w == TaskOf(c)
       IN  /\ qUsers[c] \subseteq {w}
           /\ wpc[w] # "failed"
           /\ Len(xQueue[c]) <= portTEST_NUM_ITEMS
           /\ wpc[w] \in {"give", "notify_take", "get_start", "suspend_call",
                           "suspended"} => xQueue[c] = << >>
           /\ wpc[w] = "send" =>
                 /\ Len(xQueue[c]) = iItems[w]
                 /\ Len(xQueue[c]) < portTEST_NUM_ITEMS
                 /\ xQueueSendResult(xQueue[c], portTEST_NUM_ITEMS) = pdTRUE

\* A producer has filled its queue to capacity in a round after the first.
C5_Witness ==
    \E w \in Cores :
       /\ iSamples[w] >= 1
       /\ wpc[w] = "get_end"
       /\ Len(xQueue[WorkerCoreID(w)]) = portTEST_NUM_ITEMS

\* ------------------------------------------------------------------------
\* C6. No concurrent access to an accumulator: every Sample added to
\* uxElapsedCumulative[c] was added by the producer pinned to core c, and
\* from the moment the coordinator starts reading accumulators for the
\* report every producer has performed its final-round accumulation and
\* has no accumulation left to do.
\* ------------------------------------------------------------------------
C6_NoConcurrentAccumulatorAccess ==
    /\ \A c \in Cores :
          \A j \in 1 .. Len(samples[c]) : samples[c][j].by = TaskOf(c)
    /\ (mpc = "print" \/ Len(report) > 0) =>
          \A c \in Cores :
             /\ Len(samples[c]) = portTEST_NUM_SAMPLES
             /\ dones[TaskOf(c)] = portTEST_NUM_SAMPLES
             /\ wpc[TaskOf(c)] \notin {"notify_take", "get_start", "send", "get_end"}

\* The coordinator has read the first accumulator and is about to read the
\* next one.
C6_Witness == mpc = "print" /\ Len(report) = 1

\* ------------------------------------------------------------------------
\* C7 as stated: whenever the coordinator is reading accumulators for the
\* report, every producer is already suspended by vTaskSuspend(NULL).
\* ------------------------------------------------------------------------
C7_ReadOnlyAfterSuspended ==
    mpc = "print" => \A w \in Cores : wpc[w] = "suspended"

\* ------------------------------------------------------------------------
\* C7, amended. Whenever the coordinator is reading accumulators for the
\* report, every producer has given its last completion signal and has no
\* accumulator access left: it is at the closing increment and test of its
\* loop, at the vTaskSuspend(NULL) call or already suspended.
\* ------------------------------------------------------------------------
C7_ReadOnlyAfterLastSignal ==
    mpc = "print" =>
       \A w \in Cores :
          /\ wpc[w] = "loop_next" \/ LeftLoop(w)
          /\ dones[w] = portTEST_NUM_SAMPLES
          /\ Len(samples[WorkerCoreID(w)]) = portTEST_NUM_SAMPLES

\* The coordinator is reading while a producer has not yet suspended itself.
C7_Witness == mpc = "print" /\ \E w \in Cores : wpc[w] = "suspend_call"

\* ------------------------------------------------------------------------
\* C8. Release ordering within a round: the producer on the coordinator's
\* own core never holds more releases than any other producer (it is
\* released last), so whenever it runs round k, every other producer has
\* already been issued its release of round k.
\* ------------------------------------------------------------------------
C8_LocalReleasedLast ==
    LET l == TaskOf(mainCore)
    IN  /\ \A v \in Cores : gives[l] <= gives[v]
        /\ mpc = "release_others" => gives[l] = iIter
        /\ RunningIteration(l) => \A v \in Cores : gives[v] >= iSamples[l] + 1

\* The co-located producer is inside its timed region.
C8_Witness == InTimedRegion(TaskOf(mainCore))

\* ------------------------------------------------------------------------
\* C9. Producer state machine: the step that gives the completion signal
\* leads back to ulTaskNotifyTake when fewer than portTEST_NUM_SAMPLES
\* rounds have been signalled and to vTaskSuspend otherwise; the loop is
\* left only that way; and once it is left the producer never again sends
\* to or resets a queue, adds to an accumulator, consumes a release or
\* gives a completion signal.
\* ------------------------------------------------------------------------
C9_ProducerStateMachine ==
    [][ \A w \in Cores :
          /\ (wpc[w] = "give" /\ wpc'[w] \notin {"give", "deleted"}) =>
                /\ dones'[w] = dones[w] + 1
                /\ wpc'[w] = "loop_next"
          /\ (wpc[w] = "loop_next" /\ wpc'[w] \notin {"loop_next", "deleted"}) =>
                /\ iSamples'[w] = dones[w]
                /\ wpc'[w] = IF dones[w] < portTEST_NUM_SAMPLES
                              THEN "notify_take" ELSE "suspend_call"
          /\ (wpc'[w] = "suspend_call" /\ wpc[w] # "suspend_call") =>
                wpc[w] = "loop_next" /\ dones[w] = portTEST_NUM_SAMPLES
          /\ (wpc'[w] = "suspended" /\ wpc[w] # "suspended") =>
                wpc[w] = "suspend_call"
          /\ (LeftLoop(w) \/ wpc[w] = "deleted") =>
                /\ wpc'[w] \in {"suspend_call", "suspended", "deleted"}
                /\ wpc[w] # "suspend_call" => wpc'[w] # "suspend_call"
                /\ takes'[w] = takes[w]
                /\ dones'[w] = dones[w]
                /\ iSamples'[w] = iSamples[w]
                /\ xQueue'[WorkerCoreID(w)] = xQueue[WorkerCoreID(w)]
                /\ qUsers' = qUsers
                /\ samples'[WorkerCoreID(w)] = samples[WorkerCoreID(w)]
                /\ uxElapsedCumulative'[WorkerCoreID(w)] =
                      uxElapsedCumulative[WorkerCoreID(w)] ]_vars

\* A producer has run all its rounds (returning to ulTaskNotifyTake after
\* each but the last) and is suspended.
C9_Witness ==
    \E w \in Cores : wpc[w] = "suspended" /\ takes[w] = portTEST_NUM_SAMPLES

\* ------------------------------------------------------------------------
\* C11. A creation failure in setup_idf is fatal and nothing is timed
\* afterwards: as long as the semaphore, a queue or a producer task does not
\* exist (not yet created, or its creation failed and the run aborted), no
\* release has been issued or consumed, no producer has left
\* ulTaskNotifyTake (so none has sampled the clock), no queue has been sent
\* to and no Sample has been added to an accumulator; an aborted run is
\* such a run, with the producers created before the failure still
\* waiting.
\* ------------------------------------------------------------------------
SomethingNotCreated ==
    \/ semState = "null"
    \/ \E c \in Cores : qState[c] = "null"
    \/ \E w \in Cores : wpc[w] = "none"

NothingTimed ==
    /\ iIter = 0
    /\ semCount = 0 /\ semTaken = 0
    /\ report = << >>
    /\ \A w \in Cores :
          /\ wpc[w] \in {"none", "notify_take"}
          /\ gives[w] = 0 /\ takes[w] = 0 /\ dones[w] = 0
          /\ ulNotifiedValue[w] = 0
          /\ iSamples[w] = 0
          /\ xQueue[w] = << >> /\ qUsers[w] = {} /\ samples[w] = << >>

C11_SetupFailureIsFatal ==
    /\ SomethingNotCreated => NothingTimed
    /\ mpc = "aborted" => SomethingNotCreated
    /\ mpc \in {"setup_reset", "setup_sem", "setup_queue", "setup_task"} =>
          SomethingNotCreated

\* The run was aborted by a failed creation after a producer task had
\* already been created.
C11_Witness ==
    /\ mpc = "aborted"
    /\ \E w \in Cores : wpc[w] = "notify_take"

\* ------------------------------------------------------------------------
\* C13. A producer blocks only in ulTaskNotifyTake: at every other position
\* of its loop (and at the vTaskSuspend call) its next step is enabled
\* whatever the coordinator and the other producers do.  The timed region
\* consists of exactly portTEST_NUM_ITEMS xQueueSend calls: each step taken
\* inside it appends iItems to the producer's own queue and touches no
\* accumulator or signal, and at the second clock sample the queue holds
\* portTEST_NUM_ITEMS items.  The queue is reset only after the Sample of
\* the round has been added, and the completion signal is given only after
\* the reset.
\* ------------------------------------------------------------------------
C13_Positions ==
    \A w \in Cores :
       LET c == WorkerCoreID(w)
       IN  /\ wpc[w] \in {"get_start", "send", "get_end", "reset", "give",
                           "suspend_call"} => ENABLED Producer(w)
           /\ wpc[w] = "send" =>
                 /\ iItems[w] < portTEST_NUM_ITEMS
                 /\ Len(xQueue[c]) = iItems[w]
                 /\ Len(samples[c]) = iSamples[w]
           /\ wpc[w] = "get_end" =>
                 /\ iItems[w] = portTEST_NUM_ITEMS
                 /\ Len(xQueue[c]) = portTEST_NUM_ITEMS
                 /\ Len(samples[c]) = iSamples[w]
           /\ wpc[w] = "reset" =>
                 /\ Len(xQueue[c]) = portTEST_NUM_ITEMS
                 /\ Len(samples[c]) = iSamples[w] + 1
           /\ wpc[w] = "give" =>
                 /\ xQueue[c] = << >>
                 /\ Len(samples[c]) = iSamples[w] + 1

C13_Steps ==
    \A w \in Cores :
       LET c == WorkerCoreID(w)
       IN  /\ (wpc[w] = "send" /\ << wpc[w], iItems[w] >> # << wpc'[w], iItems'[w] >>) =>
                 /\ xQueue'[c] = Append(xQueue[c], iItems[w])
                 /\ iItems'[w] = iItems[w] + 1
                 /\ wpc'[w] \in {"send", "get_end"}
                 /\ UNCHANGED << uxElapsedCumulative, samples, semCount, dones,
                                 takes, ulNotifiedValue >>
           /\ (wpc'[w] = "reset" /\ wpc[w] # "reset") => wpc[w] = "get_end"
           /\ (wpc'[w] = "give" /\ wpc[w] # "give") =>
                 wpc[w] = "reset" /\ xQueue'[c] = << >>
           /\ dones'[w] # dones[w] => wpc[w] = "give" /\ xQueue[c] = << >>
           /\ Len(xQueue'[c]) < Len(xQueue[c]) => wpc[w] = "reset"

C13_BlocksOnlyAwaitingRelease == [] C13_Positions /\ [][C13_Steps]_vars

\* A producer is inside the timed region with part of its workload sent.
C13_Witness ==
    \E w \in Cores : wpc[w] = "send" /\ iItems[w] = portTEST_NUM_ITEMS - 1

\* ------------------------------------------------------------------------
\* C14. No ordering between producers within a round: once the coordinator
\* has issued the releases of a round and waits, every producer that has
\* not yet signalled that round is able to take its next step at once (its
\* release is pending or it is running), none is held back until another
\* has finished, and producers that run at the same time run the same
\* round.  Hence any of them may signal first, and all of them can be in
\* the timed region together (the witness).
\* ------------------------------------------------------------------------
C14_NoOrderWithinRound ==
    /\ mpc = "wait" =>
          \A w \in Cores :
             dones[w] = iIter =>
                /\ ENABLED Producer(w)
                /\ wpc[w] = "notify_take" => ulNotifiedValue[w] = 1
    /\ \A w, v \in Cores :
          (RunningIteration(w) /\ RunningIteration(v)) => iSamples[w] = iSamples[v]

\* All producers are inside their timed regions at the same time.
C14_Witness == \A w \in Cores : InTimedRegion(w)

\* Reachable orders of the completion signals of one round: producer w has
\* signalled the round and producer v has not.
SignalledBefore(w, v) == mpc = "wait" /\ dones[w] = iIter + 1 /\ dones[v] = iIter

\* ------------------------------------------------------------------------
\* C16. The count of xIterDoneSem stays between 0 and its maximum
\* configNUMBER_OF_CORES, and is strictly below the maximum whenever a
\* producer is about to call xSemaphoreGive, so that every call returns
\* pdTRUE and no completion signal is dropped: the count always equals the
\* signals given minus the signals taken.  It is 0 when a round ends (the
\* coordinator has just made its last take of the round).
\* ------------------------------------------------------------------------
C16_SemaphoreNeverFull ==
    /\ semCount \in 0 .. configNUMBER_OF_CORES
    /\ semCount = SumOver(dones, Cores) - semTaken
    /\ \A w \in Cores :
          wpc[w] = "give" =>
             /\ semCount < configNUMBER_OF_CORES
             /\ xSemaphoreGiveResult(semCount, SemMaxCount) = pdTRUE
    /\ ((mpc = "release_others" /\ iCore = 0) \/ RoundsOver) => semCount = 0

\* A producer is about to give while the signal of another producer is
\* still waiting to be taken.
C16_Witness ==
    \E w \in Cores : wpc[w] = "give" /\ semCount = configNUMBER_OF_CORES - 1

\* ------------------------------------------------------------------------
\* C17. A producer's pending release count (its task-notification value)
\* is 0 or 1 in every reachable state and always equals the releases issued
\* to it minus the releases it has consumed, so the clear-on-exit
\* ulTaskNotifyTake never folds two releases into one and no release is
\* lost: a release issued to a producer that has signalled completion and
\* not yet reached its next ulTaskNotifyTake (it is at the closing increment
\* and test of its loop, with a further round to run) stays pending, and a
\* producer at ulTaskNotifyTake with a pending release can return on it.
\* ------------------------------------------------------------------------
C17_ReleaseNeverCollapsedOrLost ==
    /\ [] \A w \in Cores :
       /\ ulNotifiedValue[w] \in {0, 1}
       /\ ulNotifiedValue[w] = gives[w] - takes[w]
       /\ ulNotifiedValue[w] = 1 =>
             /\ wpc[w] \in {"loop_next", "notify_take"}
             /\ wpc[w] = "loop_next" =>
                   ProducerAfterGive(iSamples[w] + 1) = "notify_take"
             /\ wpc[w] = "notify_take" => ENABLED ProducerTake(w)
    /\ [][ \A w \in Cores :
             takes'[w] # takes[w] =>
                /\ takes'[w] = takes[w] + 1
                /\ ulNotifiedValue[w] = 1 /\ ulNotifiedValue'[w] = 0 ]_vars

\* The release of the next round is pending for a producer that has
\* signalled completion and not yet returned to ulTaskNotifyTake.
C17_Witness ==
    \E w \in Cores : wpc[w] = "loop_next" /\ ulNotifiedValue[w] = 1

\* ------------------------------------------------------------------------
\* C18 as stated: a producer running an iteration has iSamples = iIter, and
\* no producer's iSamples is ever ahead of iIter or more than one behind it.
\* ------------------------------------------------------------------------
C18_NeverAhead ==
    \A w \in Cores :
       /\ RunningIteration(w) => iSamples[w] = iIter
       /\ iSamples[w] <= iIter
       /\ iSamples[w] >= iIter - 1

\* ------------------------------------------------------------------------
\* C18, amended. A producer running an iteration has iSamples = iIter, and
\* no producer's iSamples is ever more than one ahead of or more than one
\* behind iIter.  It is ahead only after the producer has signalled and
\* counted a round whose completion signals the coordinator is still
\* collecting, and behind only between the producer's completion signal
\* and its own iSamples++.
\* ------------------------------------------------------------------------
C18_Lockstep ==
    \A w \in Cores :
       /\ RunningIteration(w) => (iSamples[w] = iIter /\ InRounds)
       /\ iSamples[w] >= iIter - 1
       /\ iSamples[w] <= iIter + 1
       /\ iSamples[w] = iIter + 1 =>
             /\ InRounds
             /\ wpc[w] \in {"notify_take", "suspend_call", "suspended"}
             /\ ulNotifiedValue[w] = 0
       /\ iSamples[w] = iIter - 1 => wpc[w] \in {"loop_next", "deleted"}

\* A producer has counted the round the coordinator is still waiting for.
C18_Witness ==
    \E w \in Cores : mpc = "wait" /\ iSamples[w] = iIter + 1

\* ------------------------------------------------------------------------
\* C19. Teardown never deletes a resource a producer will still use: a
\* producer that still has a queue operation or a completion signal ahead
\* of it finds xIterDoneSem and its queue live, and once teardown has
\* deleted the semaphore or a queue every producer is past its last
\* xQueueSend, xQueueReset and xSemaphoreGive (it is at the closing
\* increment and test of its loop, at the vTaskSuspend call, suspended or
\* deleted).
\* ------------------------------------------------------------------------
C19_NoUseAfterDelete ==
    /\ \A w \in Cores :
          (\/ wpc[w] \in {"notify_take", "get_start", "send", "get_end",
                           "reset", "give"}
           \/ wpc[w] = "loop_next" /\ dones[w] < portTEST_NUM_SAMPLES) =>
             /\ semState = "live"
             /\ qState[WorkerCoreID(w)] = "live"
    /\ (semState = "deleted" \/ \E c \in Cores : qState[c] = "deleted") =>
          \A w \in Cores :
             /\ wpc[w] \in {"loop_next", "suspend_call", "suspended", "deleted"}
             /\ dones[w] = portTEST_NUM_SAMPLES
             /\ xQueue[WorkerCoreID(w)] = << >>

\* The semaphore is deleted while a producer has not yet reached
\* vTaskSuspend.
C19_Witness ==
    semState = "deleted" /\ \E w \in Cores : wpc[w] \in {"loop_next", "suspend_call"}

\* ------------------------------------------------------------------------
\* C20 as stated: if the coordinator's core id changes between the release
\* loop and the final release of round r, the worker released twice
\* consumes its two releases as one (it runs round r once), and the
\* coordinator never gets past round r.
\* ------------------------------------------------------------------------
C20_HangsInThatRound ==
    migratedAt # << >> =>
       LET m == migratedAt[1]
       IN  /\ iIter = m.round
           /\ takes[TaskOf(m.to)] <= m.round + 1

\* ------------------------------------------------------------------------
\* C20, amended.  If the coordinator's core id changes (once in the run)
\* between the release loop and the final release of round r, the worker of
\* the new core is issued two releases in round r and the worker of the old
\* core none, and from then on the old core's worker has always been
\* issued fewer releases than the new core's.  The two releases need not
\* be consumed as one, and the coordinator may get past round r on two
\* completion signals of the same worker, but the run never reaches the
\* report: the workers never all complete portTEST_NUM_SAMPLES rounds, and
\* the coordinator stays in its iteration loop.
\* ------------------------------------------------------------------------
C20_MigrationNeverReports ==
    migratedAt # << >> =>
       LET m == migratedAt[1]
           old == TaskOf(m.from)
           new == TaskOf(m.to)
       IN  /\ InRounds /\ report = << >>
           /\ iIter >= m.round
           /\ gives[old] < gives[new]
           /\ (iIter = m.round /\ mpc = "wait") =>
                 gives[new] = m.round + 2 /\ gives[old] = m.round
           /\ dones[old] < portTEST_NUM_SAMPLES
           /\ semTaken < configNUMBER_OF_CORES * portTEST_NUM_SAMPLES

\* The run hangs after the change of core: the coordinator waits for a
\* completion signal and no task can take a step, in a round later than
\* the one of the change.
C20_Witness ==
    /\ migratedAt # << >>
    /\ mpc = "wait" /\ semCount = 0
    /\ iIter > migratedAt[1].round
    /\ \A w \in Cores : ~ ENABLED Producer(w)

\* ------------------------------------------------------------------------
\* C12. Critical-section speed test: enter and exit strictly alternate
\* (the nesting level is 0 or 1, and 1 exactly from the enter call to the
\* exit call of the same loop pass), every Sample is the reading of one
\* clock window that covers exactly one call, Samples of enter and exit
\* calls alternate starting with enter, and when the averages are printed
\* each accumulator holds the sum of exactly portTEST_NUM_SAMPLES Samples of
\* its kind, each average is the integer quotient of that sum by
\* portTEST_NUM_SAMPLES, and the critical section is not held.
\* ------------------------------------------------------------------------
CsSamplesOf(what) == SelectSeq(cs_samples, LAMBDA x : x.what = what)

C12_EnterExitAlternate ==
    /\ mux \in {0, 1}
    /\ mux = 1 <=> cs_pc \in {"entry_end", "exit_start", "exit"}
    /\ \A j \in 1 .. Len(cs_samples) :
          /\ cs_samples[j].what = (IF j % 2 = 1 THEN "enter" ELSE "exit")
          /\ cs_samples[j].calls = << cs_samples[j].what >>
    /\ Len(cs_samples) =
          2 * cs_i + (IF cs_pc \in {"exit_start", "exit", "exit_end"}
                      THEN 1 ELSE 0)
    /\ uxEntryElapsedCumulative = SumVals(CsSamplesOf("enter"))
    /\ uxExitElapsedCumulative = SumVals(CsSamplesOf("exit"))
    /\ cs_pc \in {"print_entry", "print_exit", "end"} =>
          /\ mux = 0
          /\ Len(CsSamplesOf("enter")) = portTEST_NUM_SAMPLES
          /\ Len(CsSamplesOf("exit")) = portTEST_NUM_SAMPLES
    /\ Len(cs_report) <= 2
    /\ Len(cs_report) >= 1 =>
          /\ cs_report[1].what = "enter"
          /\ cs_report[1].avg =
                SumVals(CsSamplesOf("enter")) \div portTEST_NUM_SAMPLES
    /\ Len(cs_report) = 2 =>
          /\ cs_report[2].what = "exit"
          /\ cs_report[2].avg =
                SumVals(CsSamplesOf("exit")) \div portTEST_NUM_SAMPLES
    /\ cs_pc = "end" <=> Len(cs_report) = 2

\* Both averages are printed; the exit total is non-zero and its integer
\* mean truncates to 0.
C12_Witness ==
    /\ cs_pc = "end"
    /\ cs_report[1].avg > 0
    /\ cs_report[2].avg = 0 /\ uxExitElapsedCumulative > 0

\* ------------------------------------------------------------------------
\* C15. Queue speed test: the queue is empty after setup; at the i-th
\* xQueueSend it holds the i items 0 .. i-1 sent so far, fewer than its
\* length, so the send returns pdTRUE; at the i-th xQueueReceive it still
\* holds the portTEST_NUM_SAMPLES - i items i .. portTEST_NUM_SAMPLES-1, at
\* least one, so the receive returns pdTRUE (with value i); neither
\* assertion ever fails; and the queue is empty when the averages are
\* printed.
\* ------------------------------------------------------------------------
C15_SendsAndReceivesSucceed ==
    /\ qs_pc # "failed"
    /\ Len(qs_items) <= QsQueueLength
    /\ xQueueHandle = "live" <=> qs_pc \notin {"setup", "aborted", "end"}
    /\ qs_pc \in {"send_start", "send"} =>
          /\ qs_items = [j \in 1 .. qs_i |-> j - 1]
          /\ iValue = << >>
    /\ qs_pc = "send" =>
          /\ Len(qs_items) < QsQueueLength
          /\ xQueueSendResult(qs_items, QsQueueLength) = pdTRUE
    /\ qs_pc \in {"recv_start", "recv"} =>
          /\ qs_items = [j \in 1 .. portTEST_NUM_SAMPLES - qs_i |-> qs_i + j - 1]
          /\ iValue = [j \in 1 .. qs_i |-> j - 1]
    /\ qs_pc = "recv" =>
          /\ qs_items # << >>
          /\ xQueueReceiveResult(qs_items) = pdTRUE
    /\ qs_pc \in {"print_send", "print_recv", "teardown"} =>
          /\ qs_items = << >>
          /\ Len(iValue) = portTEST_NUM_SAMPLES
          /\ Len(qs_samples) = 2 * portTEST_NUM_SAMPLES
    /\ Len(qs_report) > 0 => qs_items = << >>

\* The averages are being printed after portTEST_NUM_SAMPLES sends and as
\* many receives, the last value received being the last one sent.
C15_Witness ==
    /\ qs_pc = "print_recv"
    /\ Len(qs_report) = 1
    /\ Len(iValue) = portTEST_NUM_SAMPLES
    /\ iValue[portTEST_NUM_SAMPLES] = portTEST_NUM_SAMPLES - 1
    /\ qs_items = << >>
====
